---------------------------- MODULE Spec2Model ----------------------------
(***************************************************************************)
(* Intelligent AgroGuide (src/app.py): a Streamlit script.  Every user     *)
(* interaction (a widget change or a button press) reruns the whole script *)
(* top to bottom inside one server process.  A button reads True only in   *)
(* the run its own press triggered; the other widgets keep their value.    *)
(*                                                                         *)
(* Strings that the program inspects (the prompts handed to                *)
(* mock_ai_response) are sequences of one-character strings, so that       *)
(* building, hashing, lower-casing and substring search are computed.      *)
(* The em dash of the default question is the single element "emdash".     *)
(* The canned responses are never inspected and stay TLA+ strings.         *)
(***************************************************************************)
EXTENDS Integers, Sequences, FiniteSets, TLC

VARIABLES
    user_q,          \* text_input "Describe your problem ..."      (line 102)
    soil_type,       \* selectbox "Dominant soil type"              (line 79)
    soil_ph,         \* slider "Soil pH", in tenths                 (line 81)
    rain_mm,         \* slider "Expected monthly rainfall (mm)"     (line 132)
    season,          \* selectbox "Season"                          (line 133)
    uploaded,        \* file_uploader holds a photo                 (line 143)
    next_day_rain,   \* slider "Forecast chance of rain tomorrow"   (line 186)
    soil_moisture,   \* slider "Soil moisture level"                (line 187)
    strhash,         \* str hashes computed so far by this process  (line 62)
    rng,             \* state of the module-level `random` generator
    proc,            \* number of the server process
    last_run,        \* what triggered the latest run of the script
    ai_out,          \* st.info(ai_out) of the latest run           (line 107)
    crop_out,        \* st.success(out) of the latest run           (line 138)
    img,             \* st.image of the latest run                  (line 153)
    diagnosis,       \* st.warning(diagnosis) + plan of latest run  (line 158)
    irrigation,      \* the irrigation message of the latest run    (line 189)
    tip,             \* generator state the shown tip was drawn at  (line 206)
    session,         \* history: (prompt, response) of this process's calls
    repeated,        \* history: the latest call's prompt had been asked before
    carried          \* history: one call of an earlier process

vars == << user_q, soil_type, soil_ph, rain_mm, season, uploaded,
           next_day_rain, soil_moisture, strhash, rng, proc,
           last_run, ai_out, crop_out, img, diagnosis, irrigation, tip,
           session, repeated, carried >>

---------------------------------------------------------------------------
(* Bounds of the model *)

\* str hashes are drawn from 65536 * (-1 .. HashSpan)
HashSpan == 1
\* distinct non-empty strings one process hashes
MaxHashed == 2
\* restarts of the server process
MaxRestarts == 1
\* abstract states of a random generator
RngPeriod == 3

---------------------------------------------------------------------------
(* String literals of the script *)

DefaultQuestion ==
    << "W","h","i","t","e"," ","i","n","s","e","c","t","s"," ","o","n"," ","t",
       "o","m","a","t","o"," ","l","e","a","v","e","s"," ","emdash"," ","w","h",
       "a","t"," ","s","h","o","u","l","d"," ","I"," ","d","o","?" >>

SugarcaneQuestion ==
    << "W","h","a","t"," ","i","s"," ","t","h","e"," ","b","e","s","t"," ","t",
       "i","m","e"," ","t","o"," ","h","a","r","v","e","s","t"," ","s","u","g",
       "a","r","c","a","n","e","?" >>

WhiteflyLower ==
    << "w","h","i","t","e","f","l","y" >>

WhiteflyUpper ==
    << "W","H","I","T","E","F","L","Y" >>

EmptyStr == << >>

\* what the user may type into the text input
Questions ==
    { EmptyStr, DefaultQuestion, SugarcaneQuestion, WhiteflyLower, WhiteflyUpper }

\* the questions typed where the server process is restarted
ShortQuestions == { EmptyStr, DefaultQuestion, WhiteflyLower }

Loamy ==
    << "L","o","a","m","y" >>

Sandy ==
    << "S","a","n","d","y" >>

Clay ==
    << "C","l","a","y" >>

Alkaline ==
    << "A","l","k","a","l","i","n","e"," ","(","s","a","l","i","n","e",")" >>

SoilTypes == << Loamy, Sandy, Clay, Alkaline >>

Kharif ==
    << "K","h","a","r","i","f" >>

Rabi ==
    << "R","a","b","i" >>

Summer ==
    << "S","u","m","m","e","r" >>

Seasons == << Kharif, Rabi, Summer >>

samples ==
    << "Try drought-tolerant millets like ragi and bajra; use mulching to reduce evaporation.",
       "White insects likely whiteflies - use neem-spray or sticky traps; prune affected leaves.",
       "Irrigate lightly in the morning; avoid waterlogging; use drip if available.",
       "If pH > 8.0 consider gypsum and organic compost; prefer sorghum or legumes for rotation.",
       "Try garlic-chili spray and pheromone traps for organic pest control; rotate crops annually." >>

\* nothing shown by a section in a run
NoOutput == "(nothing shown)"

---------------------------------------------------------------------------
(* String formatting *)

Digits == << "0", "1", "2", "3", "4", "5", "6", "7", "8", "9" >>

RECURSIVE IntStr(_)
\* str(n) of a natural number, as the f-string formats an int
IntStr(n) ==
    IF n < 10 THEN << Digits[n + 1] >>
    ELSE IntStr(n \div 10) \o << Digits[(n % 10) + 1] >>

\* f"{x:.1f}" of a float on the slider's 0.1 grid, x given in tenths
Fmt1f(tenths) == IntStr(tenths \div 10) \o << "." >> \o IntStr(tenths % 10)

default_ph(st) == IF st # Alkaline THEN 72 ELSE 82

CropPrompt(st, ph, rain, se) ==
        << "S","u","g","g","e","s","t"," ","c","r","o","p","s"," ","f","o","r"," " >>
    \o st \o
        << " ","s","o","i","l",","," ","p","H"," " >>
    \o Fmt1f(ph) \o
        << ","," ","r","a","i","n","f","a","l","l"," " >>
    \o IntStr(rain) \o
        << "m","m"," ","i","n"," " >>
    \o se

---------------------------------------------------------------------------
(* mock_ai_response *)

\* The hash values the model draws from: negative, zero and positive 64-bit
\* values (never -1, which CPython does not use as a hash).
HashVals == { 65536 * k : k \in -1 .. HashSpan }

\* hash(prompt): str hashing is keyed per process (PYTHONHASHSEED is random
\* by default), so the hash of a string is any value, fixed for the life of
\* the process once computed; the empty string hashes to 0 in every process.
hash(memo, s) ==
    IF s = EmptyStr THEN {0}
    ELSE IF s \in DOMAIN memo THEN {memo[s]}
    ELSE HashVals

Remember(memo, s, h) ==
    IF s = EmptyStr THEN memo
    ELSE [x \in DOMAIN memo \cup {s} |-> IF x = s THEN h ELSE memo[x]]

\* seed = (hash(prompt) + 12345) % 10_000; Python's % of a positive modulus
\* is never negative, like TLA+'s
Seed(h) == (h + 12345) % 10000

\* random.Random(seed).choice(range(5)) + 1 of CPython 3 (Mersenne Twister,
\* choice by getrandbits rejection sampling), for seed = 0 .. 9999
ChoiceTable ==
    << 4,2,1,2,2,5,5,3,2,4,5,4,4,3,1,2,3,5,2,1,2,2,2,3,4,4,2,4,1,5,5,1,1,5,5,5,3,
       5,4,2,4,4,1,1,4,3,1,3,5,1,4,2,3,5,2,1,5,1,5,2,3,4,5,4,4,4,1,1,4,1,1,3,1,3,
       5,4,3,3,2,2,3,5,2,4,3,2,1,2,4,1,2,1,4,4,5,5,3,2,3,4,2,5,2,4,1,5,4,2,2,3,4,
       2,4,1,2,3,5,2,2,3,5,1,5,1,3,2,5,1,2,5,5,3,4,4,4,3,5,1,2,1,1,5,5,2,4,4,2,5,
       4,1,3,4,4,4,2,5,4,5,2,4,1,5,1,5,1,1,2,2,1,3,3,5,3,3,1,4,1,2,1,2,2,5,4,1,3,
       1,3,3,2,4,1,5,3,5,5,5,5,5,1,3,1,1,4,1,4,4,1,5,3,5,4,5,4,2,5,1,2,3,3,3,2,2,
       1,3,1,2,4,4,2,5,2,1,3,2,3,3,3,5,3,1,5,5,3,5,4,2,1,4,4,3,4,4,5,5,3,1,4,3,1,
       1,2,4,3,4,5,4,1,2,5,1,2,4,4,2,2,1,3,1,3,4,3,1,1,1,1,5,4,5,3,3,5,4,2,4,2,3,
       1,5,2,3,5,4,5,1,2,2,4,5,2,1,5,3,2,5,2,4,1,4,1,2,4,3,4,1,5,5,1,1,5,4,5,3,2,
       5,2,2,1,2,1,2,4,5,1,2,4,3,5,3,3,4,3,5,3,1,2,2,1,2,2,1,2,5,5,2,1,3,1,1,4,3,
       1,3,1,1,3,2,4,2,1,1,2,4,1,5,4,1,5,4,3,3,5,4,5,3,2,3,1,1,4,1,3,4,4,2,1,1,4,
       1,4,5,2,2,3,4,4,3,3,5,3,5,1,5,4,3,5,4,2,2,3,5,3,3,5,2,3,2,4,5,2,4,1,2,3,2,
       3,5,4,4,3,2,1,1,3,2,3,1,4,2,1,2,3,3,5,2,3,2,1,3,2,3,1,1,2,3,1,1,4,5,3,4,4,
       4,5,5,5,2,2,5,1,2,4,4,5,3,5,2,4,3,4,1,4,3,5,2,4,2,4,4,5,4,5,1,1,1,3,2,2,4,
       3,5,1,1,1,3,2,5,2,4,1,2,3,2,2,4,4,2,2,4,3,3,5,3,4,2,3,2,1,1,1,2,4,5,1,4,5,
       2,4,1,4,1,1,5,3,5,3,4,4,2,1,5,1,2,2,3,3,3,5,4,3,3,5,1,2,5,5,1,3,3,4,1,1,5,
       1,3,2,3,4,1,1,1,3,2,4,2,1,2,1,1,2,5,4,5,2,3,3,2,1,4,4,5,2,3,3,1,2,4,3,3,4,
       1,4,3,3,1,2,3,2,4,2,5,1,4,3,5,4,2,5,5,2,3,3,1,2,4,5,1,4,5,2,3,1,2,1,5,5,5,
       4,1,4,3,5,5,1,5,4,2,1,1,1,5,5,4,5,4,4,3,5,4,3,5,3,2,1,4,4,3,2,2,3,3,2,3,1,
       1,5,3,5,1,1,5,4,5,3,4,1,5,2,2,3,3,2,2,5,5,3,1,3,5,1,3,3,1,1,4,3,4,3,1,2,2,
       5,2,4,3,3,2,4,3,1,4,3,5,5,3,2,5,4,4,3,1,2,2,3,5,2,1,3,1,1,1,4,4,1,2,3,4,4,
       2,1,5,2,2,1,5,4,5,3,3,5,4,3,2,5,5,3,4,5,5,4,2,4,1,5,1,4,4,4,3,3,1,5,1,1,2,
       5,1,2,2,4,3,2,5,1,3,2,3,5,3,2,2,1,2,5,5,3,5,4,5,5,5,2,5,1,5,5,1,1,4,4,1,4,
       5,5,4,3,2,2,4,5,5,2,4,5,5,3,4,1,2,4,4,2,3,5,2,5,5,1,2,5,1,1,3,1,5,1,3,2,4,
       1,5,1,4,2,5,4,1,2,1,4,2,5,4,3,1,5,3,1,4,1,2,5,4,5,1,1,2,5,5,4,5,5,3,1,4,5,
       1,4,2,3,2,5,4,5,5,4,4,2,5,4,1,3,3,4,5,1,4,1,2,5,3,2,2,1,1,2,4,4,4,3,4,4,5,
       3,5,5,2,1,5,1,4,3,3,1,2,3,4,3,1,5,4,4,2,5,5,1,3,1,5,3,1,5,2,2,1,2,2,4,4,2,
       1,4,1,5,4,4,4,3,1,5,2,5,3,3,4,5,1,3,4,4,1,1,5,2,4,1,2,1,1,4,5,1,5,4,2,1,4,
       4,1,1,2,3,4,2,5,2,1,4,1,3,5,3,1,2,3,1,1,1,5,3,1,2,5,1,2,2,1,4,1,4,3,3,1,4,
       3,4,4,3,1,1,5,4,4,2,2,1,5,5,2,5,3,4,3,5,3,5,2,4,5,2,4,1,3,3,4,3,1,4,2,2,4,
       4,2,3,1,5,3,5,4,2,1,5,5,4,3,1,2,3,4,1,4,5,1,5,4,1,5,1,4,3,1,3,4,1,2,5,2,4,
       2,4,5,2,2,5,1,5,2,5,5,3,2,4,5,4,1,2,2,1,2,5,1,1,4,5,4,2,4,5,4,5,5,4,3,2,3,
       5,3,3,3,5,5,4,4,3,3,3,3,2,2,3,1,3,2,3,2,4,4,3,1,1,5,1,3,3,5,3,4,5,1,5,5,3,
       1,5,4,1,4,4,5,1,2,5,4,5,3,4,4,5,2,1,1,4,5,1,5,3,5,2,1,5,5,2,5,3,2,4,4,5,5,
       2,4,1,1,2,2,1,1,2,1,1,3,5,3,2,5,1,5,2,2,1,4,3,2,1,3,4,3,3,4,1,5,3,5,4,3,3,
       1,4,4,2,3,3,4,4,3,4,2,4,5,4,4,2,2,5,5,4,4,2,5,3,4,2,5,4,4,4,5,4,2,2,4,3,5,
       1,4,4,5,5,5,3,2,3,4,1,3,4,1,3,4,4,1,4,2,3,2,5,3,2,5,1,4,2,1,1,2,2,4,5,4,2,
       5,5,4,1,1,1,1,4,2,1,3,5,5,4,1,3,2,5,1,5,1,1,2,3,4,4,1,1,1,3,5,2,4,5,3,1,4,
       2,1,4,1,3,1,4,4,2,5,1,3,1,5,4,1,2,4,1,3,1,1,5,1,3,5,4,1,1,3,3,2,4,5,2,5,1,
       2,2,2,3,1,4,1,5,3,3,3,3,5,4,3,2,4,4,1,3,3,3,2,5,3,2,1,4,2,2,1,1,1,5,4,5,1,
       1,1,1,5,2,3,4,2,3,4,5,2,5,2,2,4,1,1,2,3,3,2,2,4,4,1,2,1,3,3,4,2,4,5,1,3,2,
       4,2,2,4,1,5,2,1,3,5,5,3,3,1,1,2,5,3,3,1,3,3,1,1,3,3,1,2,2,2,1,2,5,5,5,2,5,
       4,3,3,1,2,4,4,2,3,5,1,5,1,5,4,4,1,2,3,4,4,2,3,3,4,1,2,3,2,4,3,5,3,1,5,1,1,
       5,3,4,5,2,1,5,4,5,1,4,3,5,1,2,5,1,2,4,3,3,2,3,2,3,5,4,1,1,1,2,4,2,2,3,3,3,
       1,5,1,1,2,5,1,1,2,3,4,1,5,3,4,3,4,3,4,4,1,5,4,1,3,1,2,5,4,4,4,4,1,4,3,1,4,
       5,5,4,5,2,4,3,5,3,3,3,1,5,3,1,3,3,3,1,4,5,2,4,3,5,1,3,2,2,1,1,1,3,4,3,4,4,
       4,5,5,5,4,2,3,5,4,4,5,3,4,5,1,2,4,5,3,2,4,3,1,3,2,1,4,1,2,4,2,2,1,4,1,2,5,
       2,2,2,1,2,3,3,2,4,5,2,3,1,2,1,2,3,3,5,2,4,5,1,3,5,2,2,2,5,1,1,3,2,2,4,3,4,
       5,5,1,5,5,1,4,4,1,5,5,2,2,5,2,3,4,1,3,1,4,3,4,2,3,1,5,5,3,3,1,5,1,3,1,5,5,
       4,2,1,3,5,2,4,2,3,5,3,2,1,2,3,5,3,5,5,4,5,4,1,2,5,2,1,4,2,2,4,5,1,4,1,4,3,
       5,4,1,2,3,3,4,2,5,3,5,5,3,4,1,2,5,5,5,2,3,4,3,5,5,2,4,2,5,2,5,3,4,5,1,4,1,
       3,5,3,4,1,3,4,5,3,1,4,3,2,1,5,1,2,4,1,2,2,2,3,1,3,1,5,1,5,1,2,1,3,4,5,1,4,
       3,2,3,3,2,5,2,4,3,3,3,2,3,5,5,5,3,4,3,1,1,4,2,5,4,5,2,2,3,3,4,2,3,4,2,5,3,
       1,2,5,2,3,1,5,2,4,2,2,2,2,1,2,1,4,1,1,1,2,1,1,3,4,3,4,5,5,1,5,5,4,4,4,5,2,
       5,1,4,5,1,1,5,4,5,2,2,3,2,5,1,4,3,1,4,2,5,2,5,4,5,4,4,5,1,1,3,4,3,2,1,4,1,
       3,1,3,1,5,4,1,3,4,1,2,5,2,3,5,5,2,3,3,2,2,5,4,2,4,5,3,3,2,3,5,1,1,1,3,4,1,
       3,2,3,5,2,3,1,4,1,4,1,1,4,1,3,2,5,4,2,3,4,4,1,5,1,1,2,4,3,3,3,1,2,2,4,1,3,
       4,1,3,1,1,2,3,5,2,4,2,5,2,4,4,1,3,2,1,1,2,2,4,4,1,4,5,2,5,5,2,5,4,5,5,4,4,
       2,2,4,5,4,5,4,1,4,1,4,3,5,3,3,5,5,5,3,4,2,5,1,3,4,2,5,2,1,3,2,1,1,3,2,2,3,
       5,1,3,1,1,3,1,5,2,3,5,4,2,1,1,1,5,3,2,1,5,1,5,4,3,1,1,1,5,5,3,3,2,5,2,1,1,
       5,5,2,3,2,2,1,3,3,4,2,1,1,5,1,3,5,1,2,3,3,5,5,4,5,2,1,5,3,3,4,1,2,4,2,5,1,
       1,1,1,3,3,2,1,5,1,1,5,2,5,3,4,3,1,5,5,4,3,2,4,3,3,2,1,3,3,4,2,5,5,5,1,3,5,
       2,3,4,4,5,2,4,3,1,1,5,2,4,3,4,5,3,2,4,4,2,3,4,4,1,1,4,3,1,4,5,5,4,2,2,5,3,
       3,2,1,5,5,4,5,5,1,2,5,5,5,4,5,4,2,2,3,5,4,4,5,4,3,4,3,5,5,4,3,5,5,3,5,3,4,
       3,4,4,5,5,4,3,3,5,4,1,2,4,2,4,4,4,4,5,1,2,2,4,2,3,1,4,5,5,1,5,3,1,1,1,1,4,
       2,4,4,4,4,1,1,3,4,2,5,3,5,5,1,3,1,4,2,3,3,5,5,3,3,1,4,3,3,4,2,1,5,4,1,4,4,
       3,4,4,4,3,4,4,1,4,2,2,4,2,4,5,1,2,3,1,1,2,1,5,5,3,2,3,3,3,4,4,3,4,1,2,2,2,
       4,1,1,2,5,2,1,5,3,3,2,3,2,4,2,2,1,1,4,2,3,1,2,2,3,1,3,4,5,2,4,5,4,1,3,1,5,
       3,2,4,1,5,3,3,1,1,3,2,2,3,3,5,4,2,1,5,1,4,1,5,4,1,5,1,1,5,4,3,3,3,5,2,5,1,
       2,3,3,1,1,5,3,4,2,3,5,1,1,1,3,5,5,1,2,1,1,1,3,4,5,4,3,1,2,2,3,3,1,3,3,5,1,
       1,3,5,4,3,2,2,5,4,5,5,1,1,3,1,5,4,2,3,1,4,4,2,3,2,5,4,1,4,5,4,4,3,1,1,1,3,
       4,3,4,2,3,2,5,5,2,5,3,5,5,4,2,5,2,1,5,1,3,3,2,3,5,1,1,4,2,2,1,1,5,1,3,1,5,
       5,4,3,1,3,3,5,1,3,2,1,5,3,2,1,5,5,1,1,5,3,2,2,4,2,1,3,3,3,2,3,5,5,3,2,5,2,
       4,2,4,5,2,2,3,2,2,5,3,3,4,4,4,1,5,2,5,2,5,3,1,5,4,2,3,1,2,1,5,5,1,1,3,1,3,
       4,4,5,4,4,2,3,4,2,2,3,2,2,1,5,2,5,4,4,3,3,2,2,2,2,3,4,1,4,4,1,2,1,2,4,2,5,
       4,3,5,3,2,5,3,3,5,1,3,4,3,3,1,1,5,2,1,1,4,2,5,2,2,5,4,3,3,3,2,5,5,2,1,4,1,
       1,5,5,4,4,5,1,2,5,4,4,3,2,2,2,1,4,3,4,4,1,5,4,2,5,3,4,4,3,3,1,5,4,2,3,1,5,
       4,1,3,1,2,1,5,5,1,5,4,1,3,2,5,5,5,4,1,4,4,4,1,1,3,2,2,5,4,2,1,4,1,2,2,2,1,
       3,5,3,5,3,3,4,2,5,5,4,2,2,5,3,1,5,1,3,2,1,5,4,2,1,4,1,3,5,4,4,1,1,1,4,1,1,
       5,4,3,4,5,3,3,4,3,3,3,4,2,5,4,1,5,4,4,4,5,1,3,3,2,3,4,3,2,1,4,5,1,5,1,3,3,
       1,3,2,1,1,2,5,1,1,5,5,5,1,4,1,4,3,4,5,2,5,5,5,3,1,5,1,1,1,5,1,5,1,4,5,3,2,
       1,4,3,2,3,2,5,4,1,5,3,3,4,5,2,3,4,1,5,3,4,4,3,4,5,4,5,2,1,5,2,2,5,2,4,2,5,
       5,5,3,4,2,1,5,1,4,5,4,3,1,3,2,4,5,5,1,4,1,5,3,5,5,1,2,2,4,3,5,5,2,2,3,2,5,
       1,2,2,3,5,5,3,1,5,4,1,1,4,5,1,2,5,4,2,4,2,1,5,5,3,1,4,5,1,4,4,4,4,1,4,1,2,
       4,2,4,5,1,1,2,4,4,4,5,1,5,3,5,4,2,1,1,1,1,1,4,5,4,1,1,4,1,2,2,4,1,3,3,2,4,
       2,1,5,2,3,2,1,5,1,2,1,2,5,4,5,2,3,2,3,4,4,1,1,4,5,4,4,3,2,1,1,1,1,4,2,4,5,
       3,2,4,1,4,5,2,5,2,3,2,2,1,4,2,2,5,2,5,5,3,5,1,4,5,2,5,2,2,1,3,5,3,1,5,5,2,
       4,2,4,4,5,2,3,3,3,2,4,5,4,1,1,5,3,5,2,4,5,4,3,1,3,2,4,5,1,4,2,5,4,5,5,4,2,
       4,2,2,5,4,4,4,3,2,4,4,5,3,3,3,4,4,4,3,1,4,2,2,1,1,4,4,5,1,5,3,4,4,3,4,1,1,
       3,1,4,3,4,4,5,4,2,1,2,1,5,4,4,5,4,3,2,5,5,2,2,1,5,3,5,2,1,2,1,4,1,3,2,2,3,
       1,2,1,2,2,5,2,2,3,4,4,2,1,1,3,5,3,3,2,5,4,4,5,2,1,5,5,5,5,3,5,3,2,1,3,3,1,
       3,5,1,3,5,5,5,2,3,3,3,3,1,2,2,5,5,1,4,1,2,2,5,3,4,1,4,3,2,5,4,3,2,4,4,3,1,
       4,2,3,1,2,1,3,1,4,3,4,3,5,3,2,2,4,4,3,2,3,2,3,3,3,4,1,2,1,3,3,1,5,4,2,3,2,
       4,5,5,1,1,4,5,3,2,1,1,4,2,5,5,4,3,5,2,1,2,2,2,3,2,4,3,5,2,5,3,2,5,5,2,4,5,
       3,2,5,5,3,4,5,1,2,3,2,1,5,1,2,1,5,4,5,4,4,1,4,2,3,4,5,5,4,2,3,2,4,1,4,5,1,
       4,4,4,1,3,2,4,4,5,2,3,3,1,5,3,5,1,5,2,4,1,3,5,1,5,3,2,1,5,4,1,4,2,2,5,3,3,
       4,3,3,2,4,2,4,2,4,2,5,4,5,5,2,2,1,4,1,2,4,4,5,3,1,2,1,5,4,2,1,3,4,1,5,1,2,
       3,1,3,3,2,2,3,4,3,4,3,2,1,2,2,5,2,5,2,4,1,2,1,2,2,3,2,2,2,1,2,5,3,2,2,3,2,
       5,5,1,3,4,2,3,3,3,3,2,1,5,1,4,5,5,4,3,4,5,4,3,3,3,5,4,1,3,5,1,5,1,5,5,5,5,
       2,2,3,5,2,3,2,3,2,2,3,5,4,2,4,5,3,2,3,2,4,1,5,4,2,1,5,4,3,5,2,4,4,3,5,3,1,
       1,1,5,1,4,1,4,3,4,5,1,1,4,4,5,2,4,4,1,1,5,3,5,2,4,1,4,3,5,2,3,5,1,2,1,4,5,
       4,3,5,4,5,5,5,3,2,5,4,4,3,5,5,4,4,4,4,1,4,5,2,1,4,2,1,3,3,2,3,1,3,2,3,3,5,
       4,1,5,2,4,2,1,3,3,5,3,2,5,2,5,5,1,5,4,5,1,3,3,1,5,3,3,2,5,4,5,4,3,3,1,1,1,
       4,5,1,1,1,2,4,1,4,1,1,1,1,5,1,1,1,2,5,5,2,5,1,1,5,2,2,2,2,5,1,2,4,4,5,5,4,
       2,1,2,3,4,3,2,3,2,5,5,3,1,2,2,5,2,1,2,4,2,4,2,1,4,4,4,2,1,2,2,1,2,4,1,4,4,
       2,3,3,2,2,4,5,2,2,3,5,3,4,5,5,1,2,4,5,5,3,4,4,5,1,1,2,4,3,5,3,2,4,4,5,5,1,
       2,2,2,4,3,5,4,5,1,1,2,3,1,4,5,5,5,3,5,3,4,2,1,1,1,3,2,5,3,5,2,4,2,2,5,3,5,
       2,3,3,2,4,3,2,5,5,4,4,1,3,3,3,4,1,3,2,2,4,2,2,1,2,2,1,2,2,3,3,2,4,2,1,3,1,
       4,3,3,4,4,4,4,2,4,2,5,2,5,4,2,1,2,1,5,5,2,3,4,3,2,1,3,4,3,2,1,1,3,4,4,5,5,
       5,3,3,1,5,3,2,1,5,5,4,5,5,5,4,5,4,4,5,5,1,1,1,5,1,5,1,4,2,5,3,5,5,1,1,2,1,
       1,1,4,4,1,1,2,3,1,2,4,3,2,5,2,4,1,3,1,2,5,4,5,4,3,4,1,2,4,4,5,5,5,4,1,5,3,
       3,4,3,4,5,5,1,1,2,2,2,3,1,2,2,1,1,5,2,4,5,5,3,1,1,3,3,3,3,1,1,5,1,1,2,1,5,
       5,1,3,1,2,3,1,3,5,4,2,4,5,1,1,4,4,2,1,5,4,5,3,3,1,3,3,2,3,4,5,1,4,3,1,3,4,
       3,4,3,1,5,1,1,4,5,5,1,3,2,2,2,1,3,4,5,5,4,2,4,5,1,2,2,4,3,2,4,4,5,1,5,5,3,
       5,1,5,1,2,5,3,2,2,3,3,1,4,2,4,1,2,2,4,1,3,2,1,2,4,5,2,4,3,3,4,2,4,5,5,5,3,
       2,5,3,5,4,5,2,1,1,3,5,4,3,5,3,4,2,1,4,2,2,3,3,1,1,3,1,1,3,4,2,5,4,2,4,5,4,
       2,5,1,4,5,4,4,2,5,3,4,3,3,4,4,4,5,4,3,3,5,2,1,2,5,2,3,2,5,3,5,5,2,1,1,1,4,
       2,4,3,5,1,1,5,5,1,4,4,4,4,2,3,3,3,1,5,4,5,5,3,5,2,4,1,1,4,3,4,1,3,1,1,2,3,
       3,2,3,4,5,4,4,3,2,3,3,5,3,5,5,4,5,3,1,5,4,5,1,4,2,1,2,2,1,1,3,5,4,5,1,4,2,
       3,4,1,1,5,4,2,2,2,3,3,2,4,4,2,1,5,3,4,5,1,2,2,1,3,3,2,2,2,5,5,4,5,3,5,4,1,
       1,4,1,1,5,1,3,4,1,5,5,3,1,5,5,2,5,2,1,5,3,1,2,4,2,4,4,3,1,4,3,4,5,3,1,3,2,
       1,2,4,4,4,3,1,3,5,3,5,2,5,2,3,3,5,5,2,5,1,1,2,5,2,5,1,5,2,3,5,3,5,3,2,3,2,
       5,2,2,3,4,4,1,3,5,1,3,1,2,3,5,3,1,5,4,1,5,2,1,1,1,4,3,3,3,2,3,1,3,1,4,1,1,
       2,1,2,3,3,2,3,3,3,1,4,3,2,5,2,4,4,1,1,3,3,5,4,2,3,4,3,2,3,5,3,5,5,1,5,3,2,
       5,1,5,3,4,2,1,1,2,2,4,1,3,2,5,5,1,5,5,3,5,1,4,2,3,1,5,3,4,4,1,3,5,2,1,2,2,
       5,2,5,1,3,1,3,5,1,2,4,4,4,1,5,5,5,1,2,3,1,3,1,5,2,3,2,2,2,4,3,3,2,5,2,2,3,
       5,2,4,3,1,1,1,1,4,1,4,3,5,3,4,5,3,3,3,1,1,3,1,4,4,5,1,3,1,4,3,5,1,4,3,2,3,
       4,1,4,4,5,4,5,4,5,5,1,1,2,4,2,1,1,3,4,1,3,1,3,1,5,2,3,3,4,5,1,3,4,1,1,4,5,
       5,3,5,2,2,1,1,4,2,4,5,2,2,4,5,4,3,3,3,2,4,5,5,1,1,2,4,1,5,4,2,2,3,1,2,3,1,
       1,1,2,3,1,3,3,4,2,3,2,4,2,3,1,2,5,2,5,4,1,1,2,5,1,3,4,4,3,1,4,1,1,4,2,4,3,
       3,5,1,5,2,4,3,1,3,3,1,4,4,5,4,5,5,1,4,1,1,5,5,4,4,4,3,2,5,2,4,1,1,1,2,3,4,
       3,5,5,1,3,1,3,5,2,3,2,2,1,4,4,1,5,1,1,2,5,2,1,3,4,3,3,1,4,4,2,4,4,5,1,4,4,
       1,2,5,4,3,2,3,5,5,2,2,3,3,4,5,4,3,4,1,2,5,1,2,1,2,3,1,5,1,4,2,3,4,4,5,1,2,
       3,5,2,1,1,4,1,5,2,5,4,4,4,4,2,4,1,3,1,3,1,1,2,4,4,3,4,2,5,2,4,4,4,4,1,4,3,
       1,3,5,4,4,2,1,3,4,3,5,5,3,4,2,5,3,1,3,3,2,5,4,3,5,4,2,4,4,3,4,5,5,2,2,5,1,
       2,3,2,1,5,2,5,3,2,3,2,2,2,1,5,3,2,1,3,2,3,5,5,1,2,4,5,5,4,4,3,5,2,1,2,3,4,
       2,5,4,1,1,2,5,1,1,5,2,3,2,2,1,5,3,1,1,2,4,2,2,3,4,4,5,3,2,4,4,5,4,3,1,5,4,
       5,3,3,2,1,4,2,3,5,4,1,1,5,4,4,5,4,3,4,5,2,5,3,2,4,2,1,5,4,1,4,5,5,1,4,4,2,
       4,4,2,4,3,2,2,4,2,1,5,4,3,4,3,1,3,5,2,2,2,3,2,5,1,3,4,4,2,3,3,4,1,2,5,5,5,
       5,3,5,2,5,2,4,4,3,3,4,5,4,3,3,4,2,4,3,3,4,5,3,4,5,2,3,5,3,5,5,4,2,2,3,4,4,
       1,2,1,1,1,3,2,5,3,3,2,3,5,5,2,1,5,5,5,1,5,3,5,2,1,5,1,1,1,5,3,1,5,1,3,1,1,
       3,3,4,3,4,4,2,4,2,5,4,5,2,4,3,3,4,3,4,5,2,3,4,1,5,3,3,3,5,4,3,3,5,4,1,4,4,
       4,5,5,3,5,3,1,1,1,2,4,3,4,1,5,5,2,1,4,2,1,4,5,3,2,5,3,4,1,4,1,1,5,5,3,5,5,
       3,3,5,1,1,2,1,1,5,1,4,5,3,1,4,1,3,1,3,4,5,2,4,2,4,4,5,5,4,5,3,1,2,4,5,3,3,
       1,3,2,5,2,1,5,3,3,1,3,4,1,1,5,5,2,3,5,4,4,4,3,5,4,5,5,4,2,1,2,3,1,2,1,5,1,
       3,4,4,5,3,5,4,2,1,4,3,5,2,4,4,5,5,3,5,2,5,3,2,5,4,2,1,5,3,2,1,4,5,2,4,5,2,
       3,4,1,3,2,5,3,4,2,1,3,1,1,2,4,1,1,1,3,2,5,1,4,1,2,2,5,3,5,4,2,2,1,5,4,1,1,
       5,1,5,1,1,5,4,2,2,2,5,2,4,5,4,2,5,3,2,4,2,5,5,1,1,2,1,5,2,3,4,1,2,2,1,4,3,
       1,1,2,5,1,3,4,5,2,1,5,5,5,2,2,1,1,1,2,1,3,5,5,2,2,3,2,2,1,4,1,1,2,4,3,1,4,
       3,4,2,1,4,4,2,1,4,5,3,4,3,1,4,5,2,2,5,2,5,1,1,5,3,4,3,4,1,2,2,2,3,4,5,4,5,
       2,3,3,5,2,4,2,4,3,1,2,3,4,1,1,2,1,5,1,3,4,4,5,3,4,5,2,4,1,5,5,3,3,2,4,1,5,
       1,5,5,5,4,3,2,5,4,4,3,3,3,4,2,1,4,2,1,5,3,4,2,2,3,2,3,1,4,2,2,5,5,5,3,2,5,
       3,4,4,5,4,4,3,2,2,5,2,5,5,1,1,4,5,4,1,2,3,1,5,3,2,2,1,3,3,2,3,4,3,1,2,3,3,
       3,5,3,1,5,5,2,4,5,5,4,3,1,5,2,4,1,2,3,1,3,4,3,5,1,5,3,3,3,3,1,3,4,4,2,3,2,
       5,5,4,5,5,1,5,2,4,5,3,2,4,2,3,3,3,4,3,5,5,1,4,2,4,2,4,4,2,5,1,3,2,2,1,5,5,
       4,1,2,3,1,1,4,1,3,3,2,2,3,3,4,1,4,5,4,2,5,1,4,1,3,2,4,5,5,2,5,1,3,1,5,1,4,
       1,5,2,5,3,4,5,5,4,1,5,1,5,4,3,4,5,2,1,4,2,5,4,1,4,2,1,4,2,3,4,2,1,3,1,1,2,
       1,3,3,5,1,5,4,4,5,3,1,3,1,3,4,5,4,3,1,4,4,1,1,5,2,2,4,1,5,5,4,3,5,2,2,2,2,
       2,4,3,3,5,5,2,4,3,3,3,2,3,4,2,2,5,1,1,2,4,4,3,2,2,1,4,5,2,5,2,2,5,3,1,5,5,
       1,3,3,4,2,1,3,2,5,2,4,5,5,1,1,1,5,4,2,3,1,2,2,2,2,5,2,3,1,5,4,2,3,1,4,2,3,
       2,5,1,1,5,1,4,4,2,3,3,2,5,5,5,2,1,1,1,1,1,2,1,5,4,3,2,2,5,4,4,2,3,5,3,5,3,
       2,1,3,1,4,5,1,5,2,5,3,2,1,5,3,1,4,3,4,3,4,5,3,5,5,3,4,2,1,5,4,2,2,1,1,4,2,
       4,2,5,4,2,3,2,3,2,3,5,2,1,3,2,5,3,3,5,5,5,5,5,4,3,1,2,5,4,4,2,4,3,5,2,1,1,
       4,3,3,1,1,4,4,2,5,3,1,2,1,1,4,5,4,3,2,5,2,5,2,3,5,4,2,4,5,1,3,5,4,3,1,5,2,
       1,1,2,2,2,2,5,1,4,5,5,4,3,5,2,5,2,3,2,5,5,2,3,2,5,3,2,4,5,3,5,2,4,4,3,4,5,
       1,2,3,1,2,4,5,5,3,1,2,2,2,1,2,2,5,5,1,5,5,4,2,4,1,4,5,2,1,4,1,4,1,3,2,2,2,
       4,4,1,5,3,3,3,4,1,5,3,1,5,4,5,4,2,2,2,1,2,4,1,5,4,1,1,5,4,1,1,1,3,2,5,3,1,
       5,3,3,5,4,5,5,3,2,3,2,4,5,1,2,3,3,5,3,3,2,2,4,5,2,1,3,4,5,4,1,1,2,1,2,3,5,
       4,3,2,3,2,2,4,5,5,2,4,3,2,5,3,4,1,1,4,2,4,1,4,4,3,5,1,1,4,3,2,5,5,3,4,5,4,
       4,5,1,2,2,1,1,3,5,1,3,5,3,1,2,5,4,5,5,3,3,2,2,5,1,5,4,3,1,2,5,1,3,1,1,5,2,
       2,3,4,1,1,4,3,5,4,5,5,2,2,4,1,5,1,1,1,3,1,4,2,4,4,4,1,1,1,4,1,1,4,3,5,2,4,
       1,3,5,1,1,2,4,3,4,5,3,4,3,3,5,4,4,2,4,2,5,1,2,4,1,4,5,2,3,4,1,3,4,2,2,2,2,
       2,1,5,4,3,1,2,3,5,5,5,5,3,4,4,1,2,5,3,3,1,3,2,3,4,4,1,5,2,3,1,5,2,2,2,5,2,
       2,4,2,5,3,3,2,4,2,5,4,2,3,4,4,2,5,3,1,3,3,4,4,5,5,3,2,5,1,3,5,4,2,4,5,4,3,
       5,2,1,1,2,3,3,5,3,4,4,4,1,3,1,2,4,1,1,5,4,4,1,1,1,4,4,5,5,4,2,2,4,5,4,4,5,
       4,4,4,4,1,1,2,3,3,5,3,1,5,5,3,4,1,1,4,2,5,5,4,4,3,3,5,2,5,5,2,4,5,2,2,4,2,
       4,5,1,2,2,4,2,4,3,4,5,5,5,3,1,5,5,2,2,3,5,3,4,5,2,3,3,4,3,4,2,3,2,1,3,5,1,
       4,4,3,3,5,1,5,5,3,5,1,5,5,5,2,1,2,3,2,1,5,3,1,1,4,1,4,4,1,5,2,1,1,4,3,1,4,
       3,5,2,5,4,1,5,5,2,3,3,4,4,1,4,3,4,1,4,1,4,5,2,1,3,1,1,2,4,3,4,5,5,3,1,2,2,
       5,3,1,1,2,5,1,4,2,2,2,5,5,4,1,3,1,1,1,5,1,4,5,1,2,3,5,2,1,1,4,3,5,3,1,3,2,
       4,2,5,3,3,1,2,1,3,1,3,5,3,3,2,2,5,2,1,1,3,3,5,3,1,3,2,3,5,5,5,1,3,3,2,5,4,
       2,2,3,1,1,2,2,2,4,2,2,5,1,3,4,3,1,1,4,4,2,4,1,3,4,5,5,4,1,3,2,3,3,4,3,3,3,
       1,3,2,3,5,5,2,3,2,5,5,3,4,1,5,2,1,1,3,5,2,1,5,2,1,4,2,3,3,2,2,2,3,3,4,3,2,
       4,3,4,4,4,4,1,4,1,1,3,3,5,5,5,5,5,2,2,1,5,2,5,4,3,2,5,5,1,1,1,2,1,1,3,4,3,
       2,1,1,2,5,5,4,1,2,1,1,3,5,4,2,5,2,3,2,3,3,2,5,5,4,3,3,2,1,3,2,5,4,2,1,5,3,
       2,1,3,1,2,4,4,4,4,4,1,3,1,2,5,1,3,5,5,1,3,4,2,3,3,1,3,2,4,4,2,4,5,3,5,4,1,
       2,4,4,2,5,4,4,5,3,1,1,3,2,2,3,2,2,1,3,2,2,5,1,1,4,2,4,2,5,4,5,4,4,1,4,3,3,
       5,3,5,2,5,3,4,4,5,5,5,4,2,1,3,2,2,2,5,3,1,3,1,1,2,1,3,3,3,1,4,2,4,4,3,1,5,
       1,2,2,1,1,2,5,1,5,2,3,2,5,1,4,5,3,3,2,2,4,3,2,4,4,1,5,1,4,1,1,2,2,1,1,2,5,
       5,2,3,1,1,1,4,3,1,5,1,2,4,3,5,3,3,1,3,4,1,1,2,1,4,3,1,1,4,1,3,5,5,3,4,4,3,
       2,3,3,2,5,5,4,1,3,1,1,4,1,1,3,1,3,1,5,2,3,5,4,3,3,5,5,5,1,4,4,3,1,1,4,3,3,
       3,3,2,3,5,5,2,3,3,2,1,1,5,5,4,5,2,4,4,5,2,5,4,5,1,3,4,2,5,3,1,1,4,4,3,2,3,
       4,5,3,1,3,1,2,4,5,2,2,2,2,1,3,3,2,5,5,4,5,2,3,2,1,1,1,1,2,3,1,3,1,3,5,2,4,
       3,2,4,1,4,5,5,4,2,5,2,3,4,4,3,1,4,5,3,1,4,2,5,4,5,3,1,5,4,2,5,5,4,1,4,1,2,
       5,2,5,2,4,1,3,1,1,5,2,2,2,2,2,4,5,3,5,5,4,5,3,1,2,1,5,2,1,4,3,4,5,5,5,4,3,
       5,3,5,5,2,3,3,4,1,5,4,1,5,5,2,5,1,5,4,2,1,2,3,5,2,2,5,4,3,5,4,4,5,4,2,2,4,
       3,5,5,5,4,4,5,4,4,2,5,2,5,2,5,5,2,3,3,2,4,4,1,2,4,2,4,2,1,3,5,4,1,5,1,2,5,
       3,5,3,4,1,1,3,2,3,4,3,5,3,1,3,3,1,1,5,2,4,2,2,1,1,1,1,3,1,3,3,1,4,4,5,1,3,
       4,5,5,3,3,3,2,5,1,5,4,2,5,3,4,4,2,2,5,1,3,3,5,2,3,3,4,4,5,4,2,3,4,2,3,1,2,
       4,4,3,4,2,1,5,4,5,5,3,2,3,5,5,3,4,4,1,1,2,5,2,3,4,1,3,5,2,1,5,2,5,2,3,4,4,
       2,3,2,1,3,1,3,3,1,2,4,1,4,1,1,4,1,4,1,2,5,2,1,3,1,5,3,4,3,4,4,4,2,3,5,1,2,
       1,3,2,1,3,4,3,2,5,1,2,5,5,1,1,1,2,1,4,1,4,2,2,1,2,2,5,1,3,2,3,1,5,4,4,4,5,
       5,5,4,3,2,3,1,2,5,4,2,2,1,1,5,3,3,5,3,1,4,3,2,4,2,4,2,2,1,3,3,5,2,4,3,5,2,
       4,4,3,1,5,4,4,2,3,3,5,4,5,1,5,2,2,2,4,1,1,1,1,4,5,4,1,2,5,5,1,5,5,1,4,3,3,
       2,1,1,3,4,2,3,1,1,3,5,3,4,5,2,4,5,2,3,4,5,2,1,1,4,1,3,1,5,5,5,5,4,2,1,5,1,
       4,1,4,4,2,4,1,5,3,4,4,3,2,5,4,1,2,5,3,5,4,5,4,4,2,3,1,5,3,2,4,5,5,5,2,1,2,
       2,3,3,2,3,5,3,3,2,1,1,2,1,2,2,2,4,3,4,4,2,3,4,1,1,1,4,4,4,2,1,4,5,2,3,1,3,
       4,1,3,3,1,2,5,1,2,5,2,1,1,2,3,1,2,1,3,4,2,4,5,1,1,5,4,2,3,1,1,2,2,5,1,2,2,
       3,1,5,4,4,5,3,1,3,2,1,2,3,4,1,3,2,3,4,1,1,4,5,3,3,1,2,4,2,2,2,3,4,2,2,5,5,
       1,4,4,4,4,5,5,4,5,4,4,2,4,1,2,2,5,3,5,1,5,4,4,2,4,1,2,2,1,5,4,4,1,3,3,3,5,
       5,5,5,3,1,4,1,2,1,2,3,5,4,2,4,4,3,1,3,2,4,1,4,2,5,3,5,5,3,1,2,2,2,5,3,1,1,
       3,4,2,1,4,3,2,1,4,3,2,2,1,1,2,5,1,1,2,2,3,4,3,2,2,4,5,1,2,1,4,4,3,1,1,5,1,
       2,3,4,1,5,4,5,1,1,1,4,5,1,5,1,5,2,2,2,1,5,5,1,1,1,4,1,2,2,4,5,1,3,5,5,1,1,
       4,5,2,5,1,5,4,5,2,2,4,1,1,4,1,5,3,2,1,2,1,2,4,2,1,3,2,3,3,5,4,4,2,4,2,1,5,
       4,4,2,5,5,4,4,5,1,3,2,1,4,5,2,2,3,2,2,2,4,1,3,1,5,2,2,5,2,1,2,4,3,4,5,3,3,
       5,5,3,5,2,1,5,2,1,1,2,3,5,5,2,3,1,4,5,3,5,3,2,4,2,3,1,4,4,1,2,4,5,5,1,3,1,
       2,5,5,5,2,5,1,2,5,5,5,2,4,2,1,4,5,5,2,4,2,1,4,1,5,3,1,4,2,4,1,2,4,2,3,5,1,
       5,4,5,2,5,4,3,3,4,1,1,4,3,3,3,4,5,1,4,1,4,1,3,2,5,3,3,5,2,4,1,2,2,5,5,4,1,
       1,2,3,4,4,4,2,4,3,3,1,2,2,3,1,5,3,5,1,3,5,2,1,5,4,2,3,4,3,2,2,1,2,4,4,3,5,
       5,3,2,2,1,1,2,1,4,3,1,4,1,2,1,4,2,1,5,1,2,1,5,4,5,5,3,5,1,4,4,4,5,4,2,2,5,
       4,2,1,2,3,5,3,1,2,1,5,3,4,1,4,5,4,1,3,5,2,2,5,5,3,1,1,1,4,5,4,3,5,1,5,1,1,
       3,4,3,3,5,3,2,1,1,5,3,2,3,2,1,5,1,1,5,4,2,1,2,1,2,4,4,4,1,5,3,5,2,3,2,2,1,
       1,3,5,3,3,3,4,1,2,3,4,4,5,2,2,3,5,5,4,5,1,5,1,5,3,3,5,3,2,2,2,5,4,4,4,2,1,
       2,3,2,5,4,4,2,2,2,5,5,1,2,1,1,1,5,5,4,5,1,4,2,4,1,4,1,4,2,2,1,1,3,2,2,3,1,
       4,5,2,3,1,2,4,4,5,1,4,5,1,2,5,2,4,2,1,1,2,4,5,4,3,1,1,1,5,3,1,1,4,2,1,5,4,
       1,4,3,2,5,3,3,3,1,3,1,5,1,5,1,5,4,1,3,4,3,4,1,3,3,5,5,3,4,4,3,3,3,2,2,5,3,
       2,2,5,4,1,1,4,4,5,2,2,5,2,3,1,2,2,2,2,4,2,3,2,2,3,1,3,4,4,4,2,4,2,2,2,2,1,
       1,5,1,2,5,1,2,4,2,3,2,4,2,1,3,3,5,2,2,1,5,2,1,5,3,2,4,2,2,1,1,3,2,2,2,5,3,
       1,1,1,3,4,5,5,4,4,4,4,3,3,4,4,1,4,4,5,1,2,4,1,2,2,2,5,2,3,4,4,5,2,4,1,1,5,
       2,2,4,3,3,5,2,4,5,3,3,2,4,3,3,2,4,2,4,4,3,5,1,4,4,1,4,5,2,4,4,5,1,5,1,3,5,
       3,5,3,3,5,2,2,5,4,5,2,4,3,1,5,1,2,5,4,4,4,4,5,5,3,4,2,1,4,4,3,4,5,3,1,2,5,
       4,2,2,5,2,1,4,1,4,2,1,2,2,1,2,4,4,4,2,5,4,2,3,5,1,2,2,3,3,1,1,2,3,3,5,3,4,
       2,5,3,2,5,1,2,3,4,1,4,3,2,5,4,5,1,1,5,2,2,3,1,5,4,4,4,5,3,3,4,4,3,5,3,2,5,
       2,4,5,1,5,5,1,2,4,5,5,5,5,4,3,3,2,4,3,4,5,3,2,3,5,2,1,4,5,4,4,4,5,4,5,2,2,
       2,2,1,1,1,4,3,4,1,1,4,3,1,2,4,5,1,2,3,2,5,4,3,3,5,4,1,1,1,4,1,2,1,2,2,4,4,
       5,2,4,4,4,1,2,1,2,1,1,1,3,4,2,5,1,2,5,5,2,2,1,5,2,2,4,2,1,2,2,4,1,3,5,4,5,
       3,1,5,1,5,1,1,3,5,2,3,1,1,5,3,4,3,1,5,5,5,1,3,3,3,2,4,2,2,3,3,1,2,3,2,2,4,
       5,2,5,2,1,2,4,1,2,5,1,3,5,2,5,3,4,5,4,2,4,3,1,1,2,5,3,4,2,1,2,5,2,2,3,4,2,
       3,2,4,3,4,3,5,4,5,5,1,1,1,5,3,3,3,1,5,3,2,1,1,5,5,1,4,1,5,2,2,3,3,4,2,2,1,
       3,4,1,2,2,2,1,2,1,3,1,2,2,3,4,5,5,1,3,4,3,4,3,1,2,1,2,2,2,3,2,3,4,2,3,4,2,
       5,4,1,3,2,4,5,5,5,1,5,4,3,2,4,3,1,3,2,3,3,5,3,5,1,2,1,1,5,3,2,4,1,2,2,1,1,
       4,2,3,5,3,5,3,5,1,3,5,3,4,1,3,2,1,3,3,5,4,4,2,2,5,4,3,4,2,3,1,5,5,1,1,1,3,
       1,1,1,2,1,4,4,5,1,2,1,4,1,2,3,4,1,4,1,3,1,4,1,4,1,3,2,2,3,5,5,1,5,2,1,2,5,
       5,1,2,4,4,3,5,1,1,3,1,3,5,4,3,1,3,5,3,1,5,3,3,3,1,4,5,3,4,5,1,2,5,1,2,3,3,
       4,4,3,3,4,3,2,3,5,5,1,2,3,2,3,3,5,4,5,4,3,3,4,2,1,3,4,2,2,1,5,2,4,5,5,3,4,
       5,4,2,1,1,4,2,2,3,2,5,3,1,3,2,4,4,5,3,2,4,2,5,5,4,3,3,1,5,5,4,1,3,2,1,1,1,
       3,1,5,2,5,1,4,2,5,5,2,5,5,1,2,4,4,4,3,1,1,5,1,5,1,3,2,2,4,1,5,3,4,3,3,4,1,
       5,1,1,3,2,5,2,4,1,1,5,1,2,4,4,2,1,3,1,1,1,5,3,1,2,2,3,4,2,2,5,1,2,2,2,5,4,
       3,2,1,1,4,4,1,3,5,1,5,5,5,1,1,3,5,3,1,1,2,4,3,5,4,3,2,2,1,4,5,3,4,1,3,2,3,
       1,4,5,1,2,2,2,5,4,5,2,2,2,1,4,3,3,4,1,4,4,3,5,5,1,5,4,1,3,1,1,5,5,2,5,4,4,
       4,2,3,2,4,3,1,3,3,1,1,1,1,5,1,2,5,2,5,1,1,1,2,2,1,5,5,1,2,2,2,1,3,3,4,2,1,
       1,2,2,2,3,5,2,5,5,5,2,4,1,3,3,3,3,3,2,2,4,1,3,1,1,4,2,4,5,4,2,5,3,1,2,1,5,
       1,1,1,1,4,2,1,4,4,5,3,3,5,3,4,1,1,1,4,1,4,4,5,4,4,3,1,4,3,3,4,3,1,4,1,4,2,
       1,1,4,4,2,2,4,1,1,3,4,5,2,3,4,3,5,1,5,4,1,1,3,1,3,1,2,5,2,3,3,4,1,4,1,4,5,
       1,3,2,4,2,4,4,4,4,1,5,1,1,1,2,3,3,3,1,1,2,1,4,1,1,3,3,4,5,3,4,5,5,1,1,4,2,
       3,1,5,1,4,1,3,1,5,2,4,2,5,2,2,3,2,4,5,1,1,5,2,3,4,3,4,3,1,1,4,1,5,2,4,1,4,
       4,1,5,4,5,1,5,2,3,5,1,5,4,2,2,1,1,1,4,1,1,3,5,1,1,3,4,2,5,1,1,1,4,5,1,3,1,
       3,2,5,2,2,2,2,2,1,5,4,2,5,5,3,2,2,5,5,3,4,5,3,4,3,1,4,4,4,2,5,3,5,1,1,1,1,
       3,2,1,4,3,2,4,5,3,2,3,4,5,3,4,2,3,4,3,4,5,5,4,4,3,3,5,1,3,4,1,5,2,2,3,4,3,
       2,1,3,5,5,4,2,2,1,2,3,1,1,4,4,2,4,4,4,4,3,4,2,5,4,1,4,5,2,4,5,5,5,4,5,3,1,
       4,4,4,2,4,5,4,4,3,5,1,4,1,2,1,5,3,4,2,3,4,4,2,3,5,2,3,4,2,2,5,5,3,5,3,4,4,
       1,2,1,2,4,5,1,2,2,5,5,2,5,3,5,2,3,5,1,2,2,1,4,1,5,2,3,1,1,2,3,5,2,4,4,4,2,
       3,1,4,4,5,5,1,3,3,4,4,3,4,5,5,4,2,4,5,2,5,3,5,4,2,3,5,4,2,3,4,4,2,4,2,5,3,
       1,3,5,1,4,5,2,5,1,5,2,3,2,2,5,3,1,4,4,4,5,2,4,2,1,5,1,4,5,1,1,5,2,5,5,3,5,
       5,5,1,5,5,4,2,4,3,4,3,4,4,1,4,4,1,3,5,2,4,4,4,1,1,5,5,2,4,3,3,5,1,1,1,3,5,
       5,1,1,5,5,5,4,2,3,2,5,4,1,4,1,2,3,3,2,2,4,2,5,4,1,2,1,3,5,1,5,3,1,2,2,2,2,
       3,1,1,4,1,2,5,4,4,5,5,2,1,4,5,2,2,1,4,2,3,5,4,4,2,2,5,3,4,4,2,5,1,2,3,2,2,
       2,5,1,4,4,3,4,3,3,4,2,4,1,5,1,2,3,1,4,3,5,5,5,3,2,4,4,5,4,2,1,1,1,3,2,2,5,
       2,2,5,5,2,2,2,4,5,4,2,5,5,3,1,4,1,5,4,1,1,2,1,1,5,1,2,1,5,4,4,2,2,5,5,5,5,
       5,2,3,5,5,5,3,2,5,3,4,3,4,5,1,4,3,4,5,2,4,5,3,5,1,5,2,3,3,5,4,2,5,1,3,4,1,
       2,1,4,3,1,1,3,3,1,1 >>

choice(seed) == ChoiceTable[seed + 1]

\* The effect of one call: the text returned and the state the module-level
\* generator is left in.  The call draws from its own Random(seed) instance.
mock_ai_response_fallback(h, g) ==
    [text |-> IF choice(Seed(h)) = 5 THEN "" ELSE samples[choice(Seed(h))],
     rng |-> g]
mock_ai_response_global(h, g) ==
    [text |-> samples[choice(Seed(h))], rng |-> Seed(h) % RngPeriod]
mock_ai_response_shared(h, g) ==
    [text |-> samples[((choice(Seed(h)) + g) % 5) + 1], rng |-> (g + 1) % RngPeriod]
mock_ai_response(h, g) ==
    [text |-> samples[choice(Seed(h))], rng |-> g]

---------------------------------------------------------------------------
(* The other sections of the script *)

RngStates == 0 .. (RngPeriod - 1)

\* one call into a generator moves it to its next state
Advance(g) == (g + 1) % RngPeriod

\* lines 176 and 178: random.randint, random.uniform
ChartDraws(g) == Advance(Advance(g))

IrrigationAdvice_ge(r, m) ==
    IF r >= 60 /\ m > 40 THEN "skip"
    ELSE IF m < 30 THEN "irrigate"
    ELSE "monitor"
IrrigationAdvice(r, m) ==
    IF r > 60 /\ m > 40 THEN "skip"
    ELSE IF m < 30 THEN "irrigate"
    ELSE "monitor"

Widgets ==
    [user_q |-> user_q, soil_type |-> soil_type, soil_ph |-> soil_ph,
     rain_mm |-> rain_mm, season |-> season, uploaded |-> uploaded,
     next_day_rain |-> next_day_rain, soil_moisture |-> soil_moisture]

\* One run of the script, triggered by button b ("none": a widget change),
\* with the widgets holding w.
Run(b, w) ==
    LET calls == b \in {"ask", "crop"}
        prompt == IF b = "ask" THEN w.user_q
                  ELSE CropPrompt(w.soil_type, w.soil_ph, w.rain_mm, w.season)
        use_sample == b = "sample"
        shows == w.uploaded \/ use_sample
    IN
    /\ user_q' = w.user_q
    /\ soil_type' = w.soil_type
    /\ soil_ph' = w.soil_ph
    /\ rain_mm' = w.rain_mm
    /\ season' = w.season
    /\ uploaded' = w.uploaded
    /\ next_day_rain' = w.next_day_rain
    /\ soil_moisture' = w.soil_moisture
    /\ last_run' = b
    /\ proc' = proc
    /\ carried' = carried
    /\ IF calls
       THEN /\ \/ prompt = EmptyStr
               \/ prompt \in DOMAIN strhash
               \/ Cardinality(DOMAIN strhash) < MaxHashed
            /\ \E h \in hash(strhash, prompt) :
                 LET r == mock_ai_response(h, rng) IN
                 /\ strhash' = Remember(strhash, prompt, h)
                 /\ ai_out' = IF b = "ask" THEN r.text ELSE NoOutput
                 /\ crop_out' = IF b = "crop" THEN r.text ELSE NoOutput
                 /\ session' = session \cup { << prompt, r.text >> }
                 /\ repeated' = (\E a \in session : a[1] = prompt)
                 /\ rng' = ChartDraws(r.rng)
                 /\ tip' = -1
       ELSE /\ strhash' = strhash
            /\ ai_out' = NoOutput
            /\ crop_out' = NoOutput
            /\ session' = session
            /\ repeated' = repeated
            /\ rng' = IF b = "tip" THEN Advance(ChartDraws(rng)) ELSE ChartDraws(rng)
            /\ tip' = IF b = "tip" THEN ChartDraws(rng) ELSE -1
    /\ img' = IF w.uploaded THEN "upload" ELSE IF use_sample THEN "sample" ELSE "none"
    /\ diagnosis' = (shows /\ b = "analyze")
    /\ irrigation' = IF b = "irrigation"
                     THEN IrrigationAdvice(w.next_day_rain, w.soil_moisture)
                     ELSE "none"

---------------------------------------------------------------------------
(* Initial state: a fresh process has served the page once *)

Init ==
    /\ user_q = DefaultQuestion
    /\ soil_type = Loamy
    /\ soil_ph = default_ph(Loamy)
    /\ rain_mm = 80
    /\ season = Kharif
    /\ uploaded = FALSE
    /\ next_day_rain = 23
    /\ soil_moisture = 42
    /\ strhash = << >>
    /\ rng \in RngStates
    /\ proc = 0
    /\ last_run = "none"
    /\ ai_out = NoOutput
    /\ crop_out = NoOutput
    /\ img = "none"
    /\ diagnosis = FALSE
    /\ irrigation = "none"
    /\ tip = -1
    /\ session = {}
    /\ repeated = FALSE
    /\ carried = << >>

---------------------------------------------------------------------------
(* User actions.  Each is one interaction followed by the run it triggers. *)

Retype(Q) ==
    \E q \in Q :
        q # user_q /\ Run("none", [Widgets EXCEPT !.user_q = q])

SetUserQ == Retype(Questions)

SetUserQShort == Retype(ShortQuestions)

\* A selectbox change.  The pH slider's default depends on the soil type
\* (line 80): when the default changes, the slider is a new widget and
\* starts at its default.
SetSoilType ==
    \E i \in DOMAIN SoilTypes :
        /\ SoilTypes[i] # soil_type
        /\ Run("none", [Widgets EXCEPT
               !.soil_type = SoilTypes[i],
               !.soil_ph = IF default_ph(SoilTypes[i]) # default_ph(soil_type)
                           THEN default_ph(SoilTypes[i]) ELSE soil_ph])

SetSeason ==
    \E i \in DOMAIN Seasons :
        Seasons[i] # season /\ Run("none", [Widgets EXCEPT !.season = Seasons[i]])

Upload == ~uploaded /\ Run("none", [Widgets EXCEPT !.uploaded = TRUE])

RemoveUpload == uploaded /\ Run("none", [Widgets EXCEPT !.uploaded = FALSE])

\* the sliders move in their step of 1 within 0 .. 100
MoveRain ==
    \E d \in {-1, 1} :
        /\ next_day_rain + d \in 0 .. 100
        /\ Run("none", [Widgets EXCEPT !.next_day_rain = next_day_rain + d])

MoveMoisture ==
    \E d \in {-1, 1} :
        /\ soil_moisture + d \in 0 .. 100
        /\ Run("none", [Widgets EXCEPT !.soil_moisture = soil_moisture + d])

PressAsk == Run("ask", Widgets)

PressCrop == Run("crop", Widgets)

PressUseSample == Run("sample", Widgets)

\* "Analyze image" can be pressed only where the latest run rendered it:
\* inside the block that shows the image (line 154)
PressAnalyze == img # "none" /\ Run("analyze", Widgets)

PressSoil == Run("soil", Widgets)

PressIrrigation == Run("irrigation", Widgets)

PressTip == Run("tip", Widgets)

PressSave == Run("save", Widgets)

\* The server process is restarted and the page opened again: a new hash
\* key, a freshly seeded generator, widgets back at their defaults.  The
\* history keeps the answer the old process showed last.
Restart ==
    /\ proc < MaxRestarts
    /\ proc' = proc + 1
    /\ user_q' = DefaultQuestion
    /\ soil_type' = Loamy
    /\ soil_ph' = default_ph(Loamy)
    /\ rain_mm' = 80
    /\ season' = Kharif
    /\ uploaded' = FALSE
    /\ next_day_rain' = 23
    /\ soil_moisture' = 42
    /\ strhash' = << >>
    /\ rng' \in RngStates
    /\ last_run' = "none"
    /\ ai_out' = NoOutput
    /\ crop_out' = NoOutput
    /\ img' = "none"
    /\ diagnosis' = FALSE
    /\ irrigation' = "none"
    /\ tip' = -1
    /\ session' = {}
    /\ repeated' = FALSE
    /\ carried' = IF last_run = "ask" THEN << user_q, ai_out >> ELSE carried

---------------------------------------------------------------------------
(* Specifications *)

\* the live assistant, with the other callers of the generators
Next == SetUserQ \/ PressAsk \/ PressCrop \/ PressTip

Spec == Init /\ [][Next]_vars

\* the live assistant across restarts of the server process
NextRestart == SetUserQShort \/ PressAsk \/ Restart

SpecRestart == Init /\ [][NextRestart]_vars

\* the crop planner
NextCrop == SetSoilType \/ SetSeason \/ PressCrop

SpecCrop == Init /\ [][NextCrop]_vars

\* the pest detector, among other interactions
NextPest ==
    \/ Upload
    \/ RemoveUpload
    \/ PressUseSample
    \/ PressAnalyze
    \/ PressSoil
    \/ PressSave
    \/ SetUserQ

SpecPest == Init /\ [][NextPest]_vars

\* the irrigation alerts
NextIrrigation == MoveRain \/ MoveMoisture \/ PressIrrigation

SpecIrrigation == Init /\ [][NextIrrigation]_vars



---------------------------------------------------------------------------
(* Vocabulary of the claims: keyword matching on the lower-cased query *)

UpperLetters ==
    << "A", "B", "C", "D", "E", "F", "G", "H", "I", "J", "K", "L", "M",
       "N", "O", "P", "Q", "R", "S", "T", "U", "V", "W", "X", "Y", "Z" >>

LowerLetters ==
    << "a", "b", "c", "d", "e", "f", "g", "h", "i", "j", "k", "l", "m",
       "n", "o", "p", "q", "r", "s", "t", "u", "v", "w", "x", "y", "z" >>

LowerChar(c) ==
    IF \E i \in 1 .. 26 : UpperLetters[i] = c
    THEN LowerLetters[CHOOSE i \in 1 .. 26 : UpperLetters[i] = c]
    ELSE c

Lower(s) == [i \in DOMAIN s |-> LowerChar(s[i])]

Contains(s, kw) ==
    \E i \in 1 .. (Len(s) - Len(kw) + 1) : SubSeq(s, i, i + Len(kw) - 1) = kw

KwSoil ==
    << "s","o","i","l" >>

KwPh ==
    << "p","h" >>

PestKeywords ==
    {
    << "w","h","i","t","e"," ","i","n","s","e","c","t" >>
    ,
    << "w","h","i","t","e","f","l","y" >>
    ,
    << "t","o","m","a","t","o" >>
    ,
    << "l","e","a","f" >>
    ,
    << "p","e","s","t" >>
    }

MatchesPest(q) == \E kw \in PestKeywords : Contains(Lower(q), kw)

Responses == { samples[i] : i \in DOMAIN samples }

CropAdvisory == samples[1]

WhiteflyAdvisory == samples[2]

PhAdvisory == samples[4]

\* the calls of earlier processes the history has kept
Earlier == IF carried = << >> THEN {} ELSE { carried }

---------------------------------------------------------------------------
(* Claims *)

\* C1 (as claimed): first match wins.  With rule A (keywords {"soil"},
\* the crop-planning advisory) ahead of rule B (keywords {"soil", "ph"},
\* the pH advisory), every call whose lower-cased query contains both
\* "soil" and "ph" returns A's response and never B's.
C1_FirstMatchWins ==
    \A a \in session :
        (Contains(Lower(a[1]), KwSoil) /\ Contains(Lower(a[1]), KwPh))
            => (a[2] = CropAdvisory /\ a[2] # PhAdvisory)

C3_PestKeywordsGiveWhiteflyAdvice ==
    \A a \in session :
        (MatchesPest(a[1]) /\ ~Contains(Lower(a[1]), KwSoil))
            => a[2] = WhiteflyAdvisory

\* C4 (as claimed): a call whose query has none of the keywords (the empty
\* string, the sugarcane question) reports 'not matched', which is none of
\* the rule responses, and the page then shows none of the rule responses.
C4_NoKeywordGivesNotMatched ==
    /\ \A a \in session :
           a[1] \in { EmptyStr, SugarcaneQuestion } => a[2] \notin Responses
    /\ (last_run = "ask" /\ user_q \in { EmptyStr, SugarcaneQuestion })
           => ai_out \notin Responses

\* C5 (as claimed): two queries that differ only in letter case get the
\* same response (within one process).
C5_CaseInsensitive ==
    \A a \in session : \A b \in session :
        Lower(a[1]) = Lower(b[1]) => a[2] = b[2]

\* C6 (as claimed): a press of 'Get crop suggestions' shows the
\* crop-planning advisory, whatever soil type and season are selected.
C6_CropQueryGivesCropAdvisory ==
    last_run = "crop" => crop_out = CropAdvisory

\* C7: every call returns exactly one result and it is one of the five
\* entries of samples; the run that made the call shows it.
C7_Total ==
    /\ \A a \in session : a[2] \in Responses
    /\ last_run = "ask" => (ai_out \in Responses /\ << user_q, ai_out >> \in session)
    /\ last_run = "crop" => crop_out \in Responses
    /\ last_run \notin { "ask", "crop" } => (ai_out = NoOutput /\ crop_out = NoOutput)

\* C7 witness: the empty query has been answered.
C7_Witness ==
    /\ last_run = "ask"
    /\ user_q = EmptyStr
    /\ ai_out \in Responses

\* C9: a run that calls the selector leaves the module-level generator in
\* the state a run without the call leaves it in: advanced by the price
\* chart's two draws and nothing else.
C9_SelectorLeavesGenerator ==
    [][ (last_run' \in { "ask", "crop" }) => rng' = ChartDraws(rng) ]_vars

\* C9 witness: a run has called the selector, after an earlier call.
C9_Witness ==
    /\ last_run = "ask"
    /\ ai_out \in Responses
    /\ Cardinality(session) >= 2

\* C8 (as claimed): a press of 'Analyze image' shows the diagnosis and the
\* treatment plan, whether the image came from an upload or from the sample.
C8_AnalyzeShowsDiagnosis ==
    last_run = "analyze" => diagnosis

IrrigationAdviceSwapped(r, m) ==
    IF m < 30 THEN "irrigate"
    ELSE IF r > 60 /\ m > 40 THEN "skip"
    ELSE "monitor"

\* C10: a press of 'Irrigation advice' shows exactly one of three messages:
\* skip iff rain > 60 and moisture > 40, irrigate iff moisture < 30, monitor
\* otherwise; the two conditions exclude each other, so testing them in the
\* other order gives the same message.
C10_IrrigationAdvice ==
    LET r == next_day_rain
        m == soil_moisture
    IN
    /\ (last_run = "irrigation") <=> (irrigation # "none")
    /\ irrigation # "none" =>
        /\ irrigation \in { "skip", "irrigate", "monitor" }
        /\ (irrigation = "skip") <=> (r > 60 /\ m > 40)
        /\ (irrigation = "irrigate") <=> (m < 30)
        /\ (irrigation = "monitor") <=> (~(r > 60 /\ m > 40) /\ ~(m < 30))
        /\ irrigation = IrrigationAdviceSwapped(r, m)
    /\ ~((r > 60 /\ m > 40) /\ m < 30)

\* C10 witness: the skip message is on the page.
C10_Witness ==
    /\ irrigation = "skip"
    /\ next_day_rain > 60
    /\ soil_moisture > 40

===========================================================================
